---- MODULE Spec2Model ----
(***************************************************************************)
(* Request scheduling and tiered caching of the Zoro plugin (src/main.js): *)
(* RequestQueue, Api.createCacheKey / fetchZoroData / updateMediaListEntry *)
(* and the cache methods of ZoroPlugin.                                    *)
(*                                                                         *)
(* The program runs on one event loop.  Every action below is one          *)
(* macrotask: a call made by the UI, a network operation settling (with    *)
(* the promise continuations that run as microtasks right after it), a     *)
(* timer callback, or the passage of time.                                 *)
(***************************************************************************)
EXTENDS Integers, Sequences, FiniteSets, TLC

VARIABLES
    now,             \* Date.now(), in ms
    queue,           \* RequestQueue.queue: tasks { requestFn, resolve, reject }
    isProcessing,    \* RequestQueue.isProcessing
    inFlight,        \* tasks whose requestFn() was invoked and has not settled
    timers,          \* due times of the pending setTimeout callbacks of process()
    loader,          \* style.display of #zoro-global-loader
    showLoadingIcon, \* settings.showLoadingIcon
    cache,           \* ZoroPlugin.cache: three Maps, each in insertion order
    submitted,       \* number of calls of RequestQueue.add so far
    calls,           \* the callers awaiting a promise of add: id -> what they do next
    startOrder,      \* the requestFn's invoked so far, in order of invocation
    lastSettle,      \* the time the latest operation settled (Null: none yet)
    delivered,       \* the latest settlement of a promise of add
    cleared,         \* the mediaId of the latest call of clearSingleEntryCache
    lastReturn,      \* what the latest call of getFromCache returned, or of
                     \* another cache method called directly (or that it threw)
    storage,         \* localStorage['zoro-cache']
    phase,           \* the plugin's life: "constructed", "loaded", "unloaded"
    pruneInterval,   \* ZoroPlugin.pruneInterval is set (the sweep is scheduled)
    saved,           \* the cache as saveCacheToStorage last found it
    keys             \* the calls of createCacheKey so far: <<config, key>> pairs

vars == <<now, queue, isProcessing, inFlight, timers, loader, showLoadingIcon,
          cache, submitted, calls, startOrder, lastSettle, delivered, cleared,
          lastReturn, storage, phase, pruneInterval, saved, keys>>

\* What the scheduler, the fetches and the cache methods leave alone.
lifecycle == <<storage, phase, pruneInterval, saved>>

Null == 0 - 1

-----------------------------------------------------------------------------
(* Bounds of the model.                                                    *)

MaxCalls == 3        \* calls of RequestQueue.add in one behaviour
MaxKeys == 3         \* calls of createCacheKey remembered in one behaviour
MaxEntries == 2      \* entries the cache holds when setToCache is called directly

-----------------------------------------------------------------------------
(* Program constants.                                                      *)

delay == 700
cacheTimeout == 4 * 60 * 1000
pruneEvery == 60 * 1000

CacheTypes == {"userData", "mediaData", "searchResults"}

ttlMap == [userData      |-> 30 * 60 * 1000,
           mediaData     |-> 10 * 60 * 1000,
           searchResults |-> 2 * 60 * 1000]

-----------------------------------------------------------------------------
(* JavaScript values of query configs, and their JSON text.                *)

Num(n) == [t |-> "number", n |-> n, s |-> ""]
Str(s) == [t |-> "string", n |-> 0, s |-> s]
True == [t |-> "boolean", n |-> 1, s |-> ""]
Undefined == [t |-> "undefined", n |-> 0, s |-> ""]

\* The scalar values the modelled configs and invalidation calls use.
Values ==
    {Num(42), Num(99), Num(1), Num(5), True} \cup
    {Str(s) : s \in {"42", "alice", "bob", "ANIME", "MANGA", "single", "list",
                     "search", "stats", "CURRENT", "COMPLETED", "card",
                     "naruto"}}

\* Mutant of JsonLiteral: a string prints without its quotes.
JsonLiteralBare(v) ==
    CASE v.t = "number"  -> ToString(v.n)
      [] v.t = "string"  -> v.s
      [] v.t = "boolean" -> IF v.n = 1 THEN "true" ELSE "false"
      [] OTHER           -> "undefined"

\* JSON.stringify of a scalar: a number prints bare, a string in quotes.
JsonLiteral(v) ==
    CASE v.t = "number"  -> ToString(v.n)
      [] v.t = "string"  -> "\"" \o v.s \o "\""
      [] v.t = "boolean" -> IF v.n = 1 THEN "true" ELSE "false"
      [] OTHER           -> "undefined"

\* The literal of every value, as <<literal, value>> pairs.
Literals == {<<JsonLiteral(v), v>> : v \in Values}

\* JSON.parse of a scalar literal.
JsonParseLiteral(text) ==
    IF \E p \in Literals : p[1] = text
    THEN (CHOOSE p \in Literals : p[1] = text)[2]
    ELSE Undefined

\* An object is the sequence of its <<name, value>> properties in insertion
\* order.  JSON.stringify(obj) is the text {"name":literal,...} in that order,
\* kept here as the sequence of <<name, literal>> pairs; properties whose
\* value is undefined are left out.
JsonStringify(obj) ==
    LET defined == SelectSeq(obj, LAMBDA p : p[2].t # "undefined")
    IN  [i \in DOMAIN defined |-> <<defined[i][1], JsonLiteral(defined[i][2])>>]

JsonParse(text) ==
    [i \in DOMAIN text |-> <<text[i][1], JsonParseLiteral(text[i][2])>>]

\* Map keys that are not the text of an object are kept as one pair with an
\* empty name: text JSON.parse rejects, and the JSON texts null and 5.
GarbageKey == << <<"", "not json">> >>
NullKey == << <<"", "null">> >>
NumberKey == << <<"", "5">> >>

\* What JSON.parse(key) gives: "throws", "null", "number" or "object".
KeyShape(key) ==
    CASE key = GarbageKey -> "throws"
      [] key = NullKey    -> "null"
      [] key = NumberKey  -> "number"
      [] OTHER            -> "object"

\* obj[name]: undefined when the object has no such property.
Prop(obj, name) ==
    IF \E i \in DOMAIN obj : obj[i][1] = name
    THEN obj[CHOOSE i \in DOMAIN obj : obj[i][1] = name][2]
    ELSE Undefined

\* parseInt(v, 10) on the values used: 0 stands for NaN (both are falsy).
ParseInt(v) ==
    CASE v.t = "number"             -> v.n
      [] v.t = "string" /\ v.s = "42" -> 42
      [] OTHER                      -> 0

\* The order Array.prototype.sort() puts the config field names in
\* (UTF-16 code unit order).
FieldOrder == <<"layout", "listType", "mediaId", "mediaType", "nocache", "page",
                "perPage", "search", "type", "username">>

Rank(name) == CHOOSE i \in DOMAIN FieldOrder : FieldOrder[i] = name

RECURSIVE Insert(_, _)
Insert(sorted, name) ==
    IF sorted = <<>> \/ Rank(name) < Rank(Head(sorted))
    THEN <<name>> \o sorted
    ELSE <<Head(sorted)>> \o Insert(Tail(sorted), name)

\* Mutant of Sort: the field names are left in insertion order.
Unsorted(names) == names

RECURSIVE Sort(_)
Sort(names) ==
    IF names = <<>> THEN <<>> ELSE Insert(Sort(Tail(names)), Head(names))

ObjectKeys(obj) == [i \in DOMAIN obj |-> obj[i][1]]

\* Api.createCacheKey
createCacheKey(config) ==
    LET sortedKeys == Sort(ObjectKeys(config))
        sortedConfig == [i \in DOMAIN sortedKeys |->
                            <<sortedKeys[i], Prop(config, sortedKeys[i])>>]
    IN  JsonStringify(sortedConfig)

-----------------------------------------------------------------------------
(* Maps: sequences of [key, value, timestamp] with distinct keys.          *)

MapHas(map, key) == \E i \in DOMAIN map : map[i].key = key

MapGet(map, key) == map[CHOOSE i \in DOMAIN map : map[i].key = key]

MapDelete(map, key) == SelectSeq(map, LAMBDA e : e.key # key)

\* Map.set: an existing key keeps its place, a new one goes last.
MapSet(map, key, value, timestamp) ==
    LET entry == [key |-> key, value |-> value, timestamp |-> timestamp]
    IN  IF MapHas(map, key)
        THEN [i \in DOMAIN map |-> IF map[i].key = key THEN entry ELSE map[i]]
        ELSE Append(map, entry)

NoValue == "null"

\* ZoroPlugin.cache as the constructor creates it
EmptyCache == [type \in CacheTypes |-> <<>>]

\* this.cache[type] on the plain object this.cache: a Map for the three
\* categories, a member of Object.prototype for a name it inherits, and
\* undefined otherwise.
InheritedNames == {"constructor", "toString"}

CacheLookup(type) ==
    CASE type \in CacheTypes     -> "map"
      [] type \in InheritedNames -> "inherited"
      [] OTHER                   -> "undefined"

\* The TypeError of cacheMap.get / cacheMap.set on something that is no Map.
Throws == "TypeError"

\* Mutant of getFromCache: the TTL argument is ignored.
getFromCacheDefaultTtl(c, type, key, customTtl, t) ==
    IF type \notin CacheTypes \/ ~MapHas(c[type], key)
    THEN [value |-> NoValue, cache |-> c]
    ELSE IF t - MapGet(c[type], key).timestamp > cacheTimeout
         THEN [value |-> NoValue,
               cache |-> [c EXCEPT ![type] = MapDelete(c[type], key)]]
         ELSE [value |-> MapGet(c[type], key).value, cache |-> c]

\* Mutant of getFromCache: a hit refreshes the timestamp of the entry.
getFromCacheTouches(c, type, key, customTtl, t) ==
    IF type \notin CacheTypes \/ ~MapHas(c[type], key)
    THEN [value |-> NoValue, cache |-> c]
    ELSE LET entry == MapGet(c[type], key)
             ttl == IF customTtl = Null THEN cacheTimeout ELSE customTtl
         IN  IF t - entry.timestamp > ttl
             THEN [value |-> NoValue,
                   cache |-> [c EXCEPT ![type] = MapDelete(c[type], key)]]
             ELSE [value |-> entry.value,
                   cache |-> [c EXCEPT ![type] = MapSet(c[type], key, entry.value, t)]]

\* ZoroPlugin.getFromCache: the value returned and the cache afterwards.
\* customTtl = Null is the call without a TTL argument.
getFromCache(c, type, key, customTtl, t) ==
    IF CacheLookup(type) = "undefined"
    THEN [value |-> NoValue, cache |-> c]
    ELSE IF CacheLookup(type) = "inherited"
    THEN [value |-> Throws, cache |-> c]
    ELSE IF ~MapHas(c[type], key)
    THEN [value |-> NoValue, cache |-> c]
    ELSE LET entry == MapGet(c[type], key)
             ttl == IF customTtl = Null THEN cacheTimeout ELSE customTtl
             age == t - entry.timestamp
         IN  IF age > ttl
             THEN [value |-> NoValue,
                   cache |-> [c EXCEPT ![type] = MapDelete(c[type], key)]]
             ELSE [value |-> entry.value, cache |-> c]

\* Mutant of setToCache: a key that has an entry keeps it.
setToCacheIfAbsent(c, type, key, value, t) ==
    IF CacheLookup(type) # "map" \/ MapHas(c[type], key)
    THEN c
    ELSE [c EXCEPT ![type] = MapSet(c[type], key, value, t)]

\* ZoroPlugin.setToCache
setToCache(c, type, key, value, t) ==
    IF CacheLookup(type) # "map"
    THEN c
    ELSE [c EXCEPT ![type] = MapSet(c[type], key, value, t)]

\* What a direct call of setToCache gives its caller: nothing, or the
\* TypeError of cacheMap.set.
setToCacheReturns(type) ==
    IF CacheLookup(type) = "inherited" THEN Throws ELSE "undefined"

\* Mutant of clearListCaches: every Map is emptied.
ClearAllCaches(c) == [type \in CacheTypes |-> <<>>]

\* ZoroPlugin.clearListCaches
clearListCaches(c) == [c EXCEPT !.userData = <<>>]

\* The body of the try block of prune: does the key match?  JSON.parse(key)
\* throws on text that is not JSON and parsed['mediaId'] throws on null; the
\* catch skips the key.  A number has no mediaId.
KeyMatches(key, id) ==
    /\ KeyShape(key) = "object"
    /\ Prop(JsonParse(key), "mediaId") = Num(id)

\* Mutant of PruneByMediaId: one try around the loop, so that the first key
\* that throws ends the pass.
RECURSIVE PruneByMediaIdUntilError(_, _)
PruneByMediaIdUntilError(map, id) ==
    IF map = <<>>
    THEN <<>>
    ELSE IF KeyShape(Head(map).key) \in {"throws", "null"}
    THEN map
    ELSE IF KeyMatches(Head(map).key, id)
    THEN PruneByMediaIdUntilError(Tail(map), id)
    ELSE <<Head(map)>> \o PruneByMediaIdUntilError(Tail(map), id)

\* The inner prune of clearCacheForMedia: drops the keys whose parsed
\* mediaId is strictly equal to the number id.
PruneByMediaId(map, id) == SelectSeq(map, LAMBDA e : ~KeyMatches(e.key, id))

\* ZoroPlugin.clearCacheForMedia
clearCacheForMedia(c, mediaId) ==
    LET id == ParseInt(mediaId)
    IN  IF id = 0
        THEN c
        ELSE clearListCaches([type \in CacheTypes |-> PruneByMediaId(c[type], id)])

\* ZoroPlugin.clearSingleEntryCache
clearSingleEntryCache(c, mediaId, username, mediaType) ==
    LET id == ParseInt(mediaId)
        mediaTypeOrDefault == IF mediaType = Undefined THEN Str("ANIME") ELSE mediaType
        listKey == JsonStringify(<< <<"username", username>>,
                                    <<"type", Str("list")>>,
                                    <<"listType", Str("CURRENT")>>,
                                    <<"mediaType", mediaTypeOrDefault>> >>)
        singleKey == JsonStringify(<< <<"username", username>>,
                                      <<"type", Str("single")>>,
                                      <<"mediaId", Num(id)>>,
                                      <<"mediaType", mediaTypeOrDefault>> >>)
    IN  IF id = 0 \/ username = Undefined
        THEN c
        ELSE [c EXCEPT !.userData = MapDelete(c.userData, listKey),
                       !.mediaData = MapDelete(c.mediaData, singleKey)]

\* Mutant of pruneCache: one TTL, the default one, for every category.
pruneCacheOneTtl(c, t) ==
    [type \in CacheTypes |->
        SelectSeq(c[type], LAMBDA e : ~(t - e.timestamp > cacheTimeout))]

\* ZoroPlugin.pruneCache
pruneCache(c, t) ==
    [type \in CacheTypes |->
        SelectSeq(c[type], LAMBDA e : ~(t - e.timestamp > ttlMap[type]))]

-----------------------------------------------------------------------------
(* The cache in localStorage.                                              *)

\* What localStorage.getItem('zoro-cache') holds.  kind is "absent" (null),
\* "garbage" (text JSON.parse rejects), "null" or "number" (JSON text of that
\* value) or "object": the JSON text of an object whose properties, in
\* order, are props = <<name, [array, items]>>.
Blob(kind, props) == [kind |-> kind, props |-> props]
Absent == Blob("absent", <<>>)

\* An element of a stored array: [key, { value, timestamp }] ("pair"),
\* [key, { value }] ("noTimestamp") or null ("null").
Item(shape, key, value, timestamp) ==
    [shape |-> shape, key |-> key, value |-> value, timestamp |-> timestamp]

\* Object.entries(this.cache): the categories in the order the constructor
\* creates them in.
CacheOrder == <<"userData", "mediaData", "searchResults">>

\* Array.from(map.entries())
MapEntries(map) ==
    [i \in DOMAIN map |-> Item("pair", map[i].key, map[i].value, map[i].timestamp)]

\* Mutant of saveCacheToStorage: the Maps are written after they are cleared.
SavesAfterClear(c) ==
    Blob("object", [i \in DOMAIN CacheOrder |->
                       <<CacheOrder[i], [array |-> TRUE, items |-> <<>>]>>])

\* ZoroPlugin.saveCacheToStorage: the item written
saveCacheToStorage(c) ==
    Blob("object", [i \in DOMAIN CacheOrder |->
                       <<CacheOrder[i], [array |-> TRUE,
                                         items |-> MapEntries(c[CacheOrder[i]])]>>])

\* Mutant of LoadItems: the age of a stored entry is not looked at.
RECURSIVE LoadItemsOfAnyAge(_, _, _, _)
LoadItemsOfAnyAge(map, items, ttl, t) ==
    IF items = <<>>
    THEN [map |-> map, threw |-> FALSE]
    ELSE LET e == Head(items)
         IN  IF e.shape = "null"
             THEN [map |-> map, threw |-> TRUE]
             ELSE IF e.shape = "pair"
             THEN LoadItemsOfAnyAge(MapSet(map, e.key, e.value, e.timestamp),
                                    Tail(items), ttl, t)
             ELSE LoadItemsOfAnyAge(map, Tail(items), ttl, t)

\* Mutant of LoadItems: a loaded entry is stamped with the time of the load.
RECURSIVE LoadItemsRestamped(_, _, _, _)
LoadItemsRestamped(map, items, ttl, t) ==
    IF items = <<>>
    THEN [map |-> map, threw |-> FALSE]
    ELSE LET e == Head(items)
         IN  IF e.shape = "null"
             THEN [map |-> map, threw |-> TRUE]
             ELSE IF e.shape = "pair" /\ t - e.timestamp < ttl
             THEN LoadItemsRestamped(MapSet(map, e.key, e.value, t),
                                     Tail(items), ttl, t)
             ELSE LoadItemsRestamped(map, Tail(items), ttl, t)

\* loadCacheFromStorage: entries.forEach(([key, value]) => ...) over the
\* array of one category.  Destructuring null throws, and the entries set
\* before it stay in the Map.
RECURSIVE LoadItems(_, _, _, _)
LoadItems(map, items, ttl, t) ==
    IF items = <<>>
    THEN [map |-> map, threw |-> FALSE]
    ELSE LET e == Head(items)
         IN  IF e.shape = "null"
             THEN [map |-> map, threw |-> TRUE]
             ELSE IF e.shape = "pair" /\ t - e.timestamp < ttl
             THEN LoadItems(MapSet(map, e.key, e.value, e.timestamp),
                            Tail(items), ttl, t)
             ELSE LoadItems(map, Tail(items), ttl, t)

\* loadCacheFromStorage: for (const [type, entries] of Object.entries(cacheData)).
\* this.cache[type] is also truthy for a name the object inherits, and then
\* this.cache[type].set is no function: the first entry that gets as far as
\* the set throws, as a null entry does.
RECURSIVE LoadProps(_, _, _)
LoadProps(c, props, t) ==
    IF props = <<>>
    THEN [cache |-> c, threw |-> FALSE]
    ELSE LET type == Head(props)[1]
             entries == Head(props)[2]
         IN  IF CacheLookup(type) = "map" /\ entries.array
             THEN LET r == LoadItems(c[type], entries.items, ttlMap[type], t)
                  IN  IF r.threw
                      THEN [cache |-> [c EXCEPT ![type] = r.map], threw |-> TRUE]
                      ELSE LoadProps([c EXCEPT ![type] = r.map], Tail(props), t)
             ELSE IF CacheLookup(type) = "inherited" /\ entries.array
             THEN LET r == LoadItems(<<>>, entries.items, cacheTimeout, t)
                  IN  IF r.threw \/ r.map # <<>>
                      THEN [cache |-> c, threw |-> TRUE]
                      ELSE LoadProps(c, Tail(props), t)
             ELSE LoadProps(c, Tail(props), t)

\* ZoroPlugin.loadCacheFromStorage: the cache and the stored item afterwards,
\* and whether the catch block ran.  It never throws to its caller.
loadCacheFromStorage(c, blob, t) ==
    CASE blob.kind = "absent" ->
            [cache |-> c, storage |-> blob, caught |-> FALSE]
      [] blob.kind \in {"garbage", "null"} ->
            [cache |-> c, storage |-> Absent, caught |-> TRUE]
      [] blob.kind = "object" ->
            LET r == LoadProps(c, blob.props, t)
            IN  [cache |-> r.cache,
                 storage |-> IF r.threw THEN Absent ELSE blob,
                 caught |-> r.threw]
      [] OTHER ->
            [cache |-> c, storage |-> blob, caught |-> FALSE]

-----------------------------------------------------------------------------
(* Network responses: what requestUrl(...) settles with.                   *)

NoData == "none"

Response(rejected, json, errors, data) ==
    [rejected |-> rejected, json |-> json, errors |-> errors, data |-> data]

Rejects == Response(TRUE, FALSE, FALSE, NoData)       \* the operation rejects
EmptyJson == Response(FALSE, FALSE, FALSE, NoData)    \* response.json is empty
WithErrors == Response(FALSE, TRUE, TRUE, NoData)     \* result.errors.length > 0
WithoutData == Response(FALSE, TRUE, FALSE, NoData)   \* no errors, no result.data
WithData(d) == Response(FALSE, TRUE, FALSE, d)

Responses == {Rejects, EmptyJson, WithErrors, WithoutData, WithData("v1"), WithData("v2")}

-----------------------------------------------------------------------------
(* Inputs.                                                                 *)

\* { type: 'single', username: 'alice', mediaId: 42, mediaType: 'ANIME' }
Single(mediaId) ==
    << <<"type", Str("single")>>, <<"username", Str("alice")>>,
       <<"mediaId", mediaId>>, <<"mediaType", Str("ANIME")>> >>

\* The single-item config of another user or media type.
SingleOf(username, mediaId, mediaType) ==
    << <<"type", Str("single")>>, <<"username", username>>,
       <<"mediaId", mediaId>>, <<"mediaType", mediaType>> >>

\* Api.checkIfMediaInList(mediaId, mediaType): mediaType is undefined when
\* the caller leaves it out.
MediaInListConfig(mediaId, mediaType) ==
    << <<"type", Str("single")>>, <<"mediaType", mediaType>>,
       <<"mediaId", mediaId>> >>

\* Processor.parseCodeBlockConfig of a list block of alice's anime, with
\* listType and layout as written in the block.
ListOf(listType, layout) ==
    << <<"username", Str("alice")>>, <<"listType", listType>>,
       <<"layout", layout>>, <<"mediaType", Str("ANIME")>> >>

\* Processor.parseInlineLink: zoro:alice/anime/42#nocache
SingleNoCache(mediaId) ==
    << <<"username", Str("alice")>>, <<"layout", Str("card")>>,
       <<"type", Str("single")>>, <<"mediaType", Str("ANIME")>>,
       <<"mediaId", mediaId>>, <<"nocache", True>> >>

\* Processor.parseCodeBlockConfig of a list block: no type, defaults filled in
ListConfig ==
    << <<"username", Str("alice")>>, <<"listType", Str("CURRENT")>>,
       <<"layout", Str("card")>>, <<"mediaType", Str("ANIME")>> >>

\* Processor.parseInlineLink of zoro:alice/stats and of a list link
StatsConfig ==
    << <<"username", Str("alice")>>, <<"layout", Str("card")>>,
       <<"type", Str("stats")>> >>
InlineListConfig ==
    << <<"username", Str("alice")>>, <<"layout", Str("card")>>,
       <<"type", Str("list")>>, <<"listType", Str("CURRENT")>> >>

\* Render.renderSearchInterface: { ...config, search: term, page: 1, perPage: 5 }
SearchConfig ==
    << <<"type", Str("search")>>, <<"layout", Str("card")>>,
       <<"mediaType", Str("ANIME")>>, <<"search", Str("naruto")>>,
       <<"page", Num(1)>>, <<"perPage", Num(5)>> >>

\* The instants the clock is observed at: around the scheduler's delay and
\* around every TTL.
TimePoints ==
    {0, delay \div 2, delay, 2 * delay} \cup
    UNION {{ttl, ttl + 1} : ttl \in {ttlMap[type] : type \in CacheTypes}}

-----------------------------------------------------------------------------
(* RequestQueue.                                                           *)

\* RequestQueue.showGlobalLoader / hideGlobalLoader: the style.display of the
\* element afterwards ("removed": onunload has taken it out of the document)
\* Mutant of showGlobalLoader: the setting is not looked at.
ShowsWhateverTheSetting(display) == IF display = "removed" THEN display ELSE "block"

showGlobalLoader(display) ==
    IF ~showLoadingIcon \/ display = "removed" THEN display ELSE "block"
hideGlobalLoader(display) == IF display = "removed" THEN display ELSE "none"

Task(id) == [requestFn |-> id, resolve |-> id, reject |-> id]

\* Mutant of ProcessReturnsEarly: the isProcessing guard is forgotten.
ProcessIgnoresBusy(q, processing) == Len(q) = 0

\* process(): the early return
ProcessReturnsEarly(q, processing) == processing \/ Len(q) = 0

\* Mutant of Shift: the task is read and left at the head of the queue.
Peek(q) == [task |-> Head(q), rest |-> q]

\* Mutant of Shift: queue.pop() in place of queue.shift().
Pop(q) == [task |-> q[Len(q)], rest |-> SubSeq(q, 1, Len(q) - 1)]

\* process(): const { requestFn, resolve, reject } = this.queue.shift()
Shift(q) == [task |-> Head(q), rest |-> Tail(q)]

\* RequestQueue.process, called with this.queue = q and this.isProcessing =
\* processing, up to its first suspension at `await requestFn()`.
Process(q, processing) ==
    IF ProcessReturnsEarly(q, processing)
    THEN /\ queue' = q
         /\ isProcessing' = processing
         /\ loader' = IF Len(q) = 0 THEN hideGlobalLoader(loader) ELSE loader
         /\ UNCHANGED <<inFlight, startOrder>>
    ELSE /\ isProcessing' = TRUE
         /\ loader' = IF Len(q) = 1 THEN showGlobalLoader(loader) ELSE loader
         /\ queue' = Shift(q).rest
         /\ inFlight' = inFlight \cup {Shift(q).task}
         /\ startOrder' = Append(startOrder, Shift(q).task.requestFn)

\* RequestQueue.add, for the caller described by `call`
Add(call) ==
    /\ submitted < MaxCalls
    /\ submitted' = submitted + 1
    /\ calls' = calls @@ (submitted + 1 :> call)
    /\ Process(Append(queue, Task(submitted + 1)), isProcessing)

\* Mutant of TimersAfterSettle: the finally block schedules nothing.
TimersNeverArmed(pending, t) == pending

\* Mutant of TimersAfterSettle: the callback is scheduled without the delay.
TimersWithoutDelay(pending, t) == pending \cup {t}

\* process(): finally { setTimeout(..., this.delay) }
TimersAfterSettle(pending, t) == pending \cup {t + delay}

\* setTimeout callback of process(): isProcessing = false; process()
TimerFire(due) ==
    /\ due \in timers
    /\ now >= due
    /\ timers' = timers \ {due}
    /\ Process(queue, FALSE)
    /\ UNCHANGED <<now, showLoadingIcon, cache, submitted, calls, lastSettle,
                   delivered, cleared, lastReturn, keys>>
    /\ UNCHANGED lifecycle

\* Mutant of SettledPromise: an error is passed on to the next queued task.
SettledPromiseLeaks(task, resp) ==
    IF resp.rejected
    THEN IF queue # <<>> THEN Head(queue).reject ELSE task.reject
    ELSE task.resolve

\* process(): try { resolve(await requestFn()) } catch (err) { reject(err) }:
\* the promise that the settlement of the task's operation settles
SettledPromise(task, resp) == IF resp.rejected THEN task.reject ELSE task.resolve

-----------------------------------------------------------------------------
(* Api.                                                                    *)

NewCall(kind, cacheType, cacheKey, mediaId) ==
    [kind |-> kind, cacheType |-> cacheType, cacheKey |-> cacheKey,
     mediaId |-> mediaId]

\* Mutant of CacheTypeOf: a config without one of the three types is filed
\* with the single items.
CacheTypeOfTyped(config) ==
    LET type == Prop(config, "type")
    IN  CASE type = Str("stats")  -> "userData"
          [] type = Str("single") -> "mediaData"
          [] type = Str("search") -> "searchResults"
          [] OTHER                -> "mediaData"

\* fetchZoroData: the category a config is filed under
CacheTypeOf(config) ==
    LET type == Prop(config, "type")
    IN  CASE type = Str("stats")  -> "userData"
          [] type = Str("single") -> "mediaData"
          [] type = Str("search") -> "searchResults"
          [] OTHER                -> "userData"

\* Mutant of Probe: the cache is not looked at.
ProbeIgnoresCache(c, config, cacheType, cacheKey, t) == [value |-> NoValue, cache |-> c]

\* fetchZoroData: const cached = !config.nocache && getFromCache(...)
Probe(c, config, cacheType, cacheKey, t) ==
    IF Prop(config, "nocache") = True
    THEN [value |-> NoValue, cache |-> c]
    ELSE getFromCache(c, cacheType, cacheKey, ttlMap[cacheType], t)

\* Api.fetchZoroData up to `await this.requestQueue.add(...)`
FetchZoroData(config) ==
    LET cacheKey == createCacheKey(config)
        cacheType == CacheTypeOf(config)
        probe == Probe(cache, config, cacheType, cacheKey, now)
    IN  /\ cache' = probe.cache
        /\ lastReturn' = probe.value
        /\ IF probe.value # NoValue
           THEN UNCHANGED <<queue, isProcessing, inFlight, loader, submitted, calls,
                            startOrder>>
           ELSE Add(NewCall("fetch", cacheType, cacheKey, Undefined))
        /\ UNCHANGED <<now, timers, showLoadingIcon, lastSettle, delivered, cleared,
                       keys>>
        /\ UNCHANGED lifecycle

\* Api.updateMediaListEntry up to `await this.requestQueue.add(...)`, for a
\* logged-in user (without an access token it throws before submitting)
UpdateMediaListEntry(mediaId) ==
    /\ Add(NewCall("update", "none", <<>>, mediaId))
    /\ UNCHANGED <<now, timers, showLoadingIcon, cache, lastSettle, delivered,
                   cleared, lastReturn, keys>>
    /\ UNCHANGED lifecycle

\* Mutant of FetchSucceeds: result.errors and result.data are not looked at.
FetchIgnoresErrors(resp) == ~resp.rejected /\ resp.json

\* fetchZoroData after the await: does it reach setToCache?
FetchSucceeds(resp) ==
    ~resp.rejected /\ resp.json /\ ~resp.errors /\ resp.data # NoData

\* Mutant of MutationSucceeds: result.errors is not looked at.
MutationIgnoresErrors(resp) == ~resp.rejected /\ resp.json

\* updateMediaListEntry after the await: does it reach clearCacheForMedia?
MutationSucceeds(resp) == ~resp.rejected /\ resp.json /\ ~resp.errors

\* The rest of fetchZoroData / updateMediaListEntry, run when the promise the
\* caller awaits settles with resp: the cache afterwards.
CacheAfterContinuation(c, call, resp, t) ==
    CASE call.kind = "fetch" /\ FetchSucceeds(resp) ->
            setToCache(c, call.cacheType, call.cacheKey, resp.data, t)
      [] call.kind = "update" /\ MutationSucceeds(resp) ->
            clearCacheForMedia(c, call.mediaId)
      [] OTHER -> c

\* What the caller of promise `id` saw and did when it settled with resp.
Delivery(id, task, call, resp) ==
    [promise |-> id, operation |-> task.requestFn, call |-> call,
     how |-> IF resp.rejected THEN "rejected" ELSE "fulfilled",
     with |-> resp,
     outcome |-> IF call.kind = "fetch"
                 THEN IF FetchSucceeds(resp) THEN "returned" ELSE "threw"
                 ELSE IF MutationSucceeds(resp) /\ resp.data # NoData
                      THEN "returned" ELSE "threw",
     invalidated |-> call.kind = "update" /\ MutationSucceeds(resp)]

NoDelivery ==
    [promise |-> 0, operation |-> 0,
     call |-> NewCall("none", "none", <<>>, Undefined), how |-> "none",
     with |-> Rejects, outcome |-> "none", invalidated |-> FALSE]

\* The operation of an in-flight task settles with resp: process() resumes
\* after `await requestFn()`, settles the caller's promise (whose continuation
\* runs as a microtask) and arms the timer.  A promise settles once.
Complete(task, resp) ==
    /\ task \in inFlight
    /\ inFlight' = inFlight \ {task}
    /\ LET id == SettledPromise(task, resp)
       IN  IF id \in DOMAIN calls
           THEN /\ calls' = [i \in DOMAIN calls \ {id} |-> calls[i]]
                /\ cache' = CacheAfterContinuation(cache, calls[id], resp, now)
                /\ delivered' = Delivery(id, task, calls[id], resp)
           ELSE UNCHANGED <<calls, cache, delivered>>
    /\ timers' = TimersAfterSettle(timers, now)
    /\ lastSettle' = now
    /\ UNCHANGED <<now, queue, isProcessing, loader, showLoadingIcon, submitted,
                   startOrder, cleared, lastReturn, keys>>
    /\ UNCHANGED lifecycle

-----------------------------------------------------------------------------
(* ZoroPlugin.                                                             *)

\* clearSingleEntryCache called by the edit modal after a save or a removal
ClearSingleEntryCache(mediaId, username, mediaType) ==
    /\ cache' = clearSingleEntryCache(cache, mediaId, username, mediaType)
    /\ cleared' = mediaId
    /\ UNCHANGED <<now, queue, isProcessing, inFlight, timers, loader,
                   showLoadingIcon, submitted, calls, startOrder, lastSettle,
                   delivered, lastReturn, keys>>
    /\ UNCHANGED lifecycle

\* getFromCache(type, key) called without a TTL argument
GetFromCache(type, key) ==
    /\ cache' = getFromCache(cache, type, key, Null, now).cache
    /\ lastReturn' = getFromCache(cache, type, key, Null, now).value
    /\ UNCHANGED <<now, queue, isProcessing, inFlight, timers, loader,
                   showLoadingIcon, submitted, calls, startOrder, lastSettle,
                   delivered, cleared, keys>>
    /\ UNCHANGED lifecycle

\* The setInterval callback of the constructor: pruneCache every minute
PruneCache ==
    /\ pruneInterval
    /\ now >= pruneEvery
    /\ cache' = pruneCache(cache, now)
    /\ UNCHANGED <<now, queue, isProcessing, inFlight, timers, loader,
                   showLoadingIcon, submitted, calls, startOrder, lastSettle,
                   delivered, cleared, lastReturn, keys>>
    /\ UNCHANGED lifecycle

\* Mutant of StopPruner: clearInterval is not called.
StopPrunerForgets(handle) == handle

\* onunload: if (this.pruneInterval) { clearInterval(...); this.pruneInterval
\* = null }: the handle afterwards
StopPruner(handle) == IF handle THEN FALSE ELSE handle

\* ZoroPlugin.onunload: save the cache, stop the sweep, clear the Maps, take
\* the loader out of the document.  saveCacheToStorage has no await in it and
\* runs to its end before the Maps are cleared.  Obsidian calls it once for a
\* loaded plugin; the method itself does not look at whether it ran before.
Onunload ==
    /\ storage' = saveCacheToStorage(cache)
    /\ saved' = cache
    /\ pruneInterval' = StopPruner(pruneInterval)
    /\ cache' = EmptyCache
    /\ loader' = "removed"
    /\ phase' = "unloaded"
    /\ UNCHANGED <<now, queue, isProcessing, inFlight, timers, showLoadingIcon,
                   submitted, calls, startOrder, lastSettle, delivered, cleared,
                   lastReturn, keys>>

\* The plugin is loaded (again): the constructor makes the empty Maps, a new
\* RequestQueue and the sweep; onload hydrates the cache and injectCSS makes
\* the loader.  The model follows one instance at a time, so a reload waits
\* for the scheduler of the instance before it to have gone quiet.
Onload ==
    /\ phase \in {"constructed", "unloaded"}
    /\ queue = <<>> /\ inFlight = {} /\ timers = {}
    /\ cache' = loadCacheFromStorage(EmptyCache, storage, now).cache
    /\ storage' = loadCacheFromStorage(EmptyCache, storage, now).storage
    /\ isProcessing' = FALSE
    /\ pruneInterval' = TRUE
    /\ loader' = "none"
    /\ phase' = "loaded"
    /\ UNCHANGED <<now, queue, inFlight, timers, showLoadingIcon, submitted, calls,
                   startOrder, lastSettle, delivered, cleared, lastReturn, saved,
                   keys>>

\* Api.createCacheKey called for config, in whatever state the plugin is in
CreateCacheKey(config) ==
    /\ Cardinality(keys) < MaxKeys
    /\ keys' = keys \cup {<<config, createCacheKey(config)>>}
    /\ UNCHANGED <<now, queue, isProcessing, inFlight, timers, loader,
                   showLoadingIcon, cache, submitted, calls, startOrder, lastSettle,
                   delivered, cleared, lastReturn>>
    /\ UNCHANGED lifecycle

\* The 'Loading Icon' toggle of the settings tab: onChange(value)
SetShowLoadingIcon(value) ==
    /\ showLoadingIcon' = value
    /\ UNCHANGED <<now, queue, isProcessing, inFlight, timers, loader, cache,
                   submitted, calls, startOrder, lastSettle, delivered, cleared,
                   lastReturn, keys>>
    /\ UNCHANGED lifecycle

\* The number of entries in the three Maps.
CacheSize(c) == Len(c.userData) + Len(c.mediaData) + Len(c.searchResults)

\* setToCache(type, key, value) called directly
SetToCache(type, key, value) ==
    /\ IF CacheLookup(type) = "map"
       THEN MapHas(cache[type], key) \/ CacheSize(cache) < MaxEntries
       ELSE TRUE
    /\ cache' = setToCache(cache, type, key, value, now)
    /\ lastReturn' = setToCacheReturns(type)
    /\ UNCHANGED <<now, queue, isProcessing, inFlight, timers, loader,
                   showLoadingIcon, submitted, calls, startOrder, lastSettle,
                   delivered, cleared, keys>>
    /\ UNCHANGED lifecycle

\* Authentication.logout, from the 'Logout' button: the credentials are
\* cleared and saved (settings are not part of this model), then the Maps.
Logout ==
    /\ cache' = EmptyCache
    /\ UNCHANGED <<now, queue, isProcessing, inFlight, timers, loader,
                   showLoadingIcon, submitted, calls, startOrder, lastSettle,
                   delivered, cleared, lastReturn, keys>>
    /\ UNCHANGED lifecycle

\* Time passes.
Tick(times) ==
    /\ \E t \in times : t > now /\ now' = t
    /\ UNCHANGED <<queue, isProcessing, inFlight, timers, loader, showLoadingIcon,
                   cache, submitted, calls, startOrder, lastSettle, delivered,
                   cleared, lastReturn, keys>>
    /\ UNCHANGED lifecycle

\* Time passes until a pending timer of process() is due.
Elapse ==
    /\ \E due \in timers : due > now /\ now' = due
    /\ UNCHANGED <<queue, isProcessing, inFlight, timers, loader, showLoadingIcon,
                   cache, submitted, calls, startOrder, lastSettle, delivered,
                   cleared, lastReturn, keys>>
    /\ UNCHANGED lifecycle

-----------------------------------------------------------------------------
(* Specifications.                                                         *)

\* The state after the constructor and onload, with settings.showLoadingIcon
\* as given (DEFAULT_SETTINGS has it on).
InitState(icons, blobs, phases) ==
    /\ now = 0
    /\ queue = <<>>
    /\ isProcessing = FALSE
    /\ inFlight = {}
    /\ timers = {}
    /\ loader = "none"
    /\ showLoadingIcon \in icons
    /\ cache = EmptyCache
    /\ submitted = 0
    /\ calls = <<>>
    /\ startOrder = <<>>
    /\ lastSettle = Null
    /\ delivered = NoDelivery
    /\ cleared = Undefined
    /\ lastReturn = NoValue
    /\ storage \in blobs
    /\ phase \in phases
    /\ pruneInterval = TRUE
    /\ saved = EmptyCache
    /\ keys = {}

\* The plugin loaded, with nothing in localStorage.
InitWith(icons) == InitState(icons, {Absent}, {"loaded"})

Init == InitWith({TRUE})

Fetch(configs) == \E config \in configs : FetchZoroData(config)
Update(mediaIds) == \E mediaId \in mediaIds : UpdateMediaListEntry(mediaId)
Settle(responses) == \E task \in inFlight, resp \in responses : Complete(task, resp)
Timeout == \E due \in timers : TimerFire(due)
Invalidate(mediaIds) ==
    \E mediaId \in mediaIds : ClearSingleEntryCache(mediaId, Str("alice"), Str("ANIME"))

Toggle == \E value \in BOOLEAN : SetShowLoadingIcon(value)

\* Fetches, mutations and invalidations of single items and lists.
Configs == {Single(Num(42)), Single(Str("42")), Single(Num(99)),
            SingleNoCache(Num(42)), ListConfig}
Times == {0, delay, 2 * delay}

Next ==
    \/ Fetch(Configs)
    \/ Update({Num(42)})
    \/ Settle(Responses)
    \/ Timeout
    \/ Invalidate({Num(42)})
    \/ Tick(Times)

Spec == Init /\ [][Next]_vars

\* The scheduler under submissions that come at every phase of its cycle.
QueueConfigs == {SingleNoCache(Num(42)), Single(Num(42))}
QueueResponses == {Rejects, WithData("v1")}
QueueTimes == {0, delay \div 2, delay, delay + delay \div 2, 2 * delay, 3 * delay}

NextQueue ==
    \/ Fetch(QueueConfigs)
    \/ Update({Num(42)})
    \/ Settle(QueueResponses)
    \/ Timeout
    \/ Toggle
    \/ Tick(QueueTimes)

SpecQueue == InitWith(BOOLEAN) /\ [][NextQueue]_vars

\* Entries of every category as they age past their TTL.
TtlConfigs == {Single(Num(42)), ListConfig, SearchConfig}
TtlResponses == {WithData("v1"), Rejects}

NextTtl ==
    \/ Fetch(TtlConfigs)
    \/ Settle(TtlResponses)
    \/ Timeout
    \/ PruneCache
    \/ Tick(TimePoints)

SpecTtl == Init /\ [][NextTtl]_vars

\* The cache methods called directly, as the entries age.
CacheTimes == {0, delay, ttlMap.searchResults, ttlMap.searchResults + 1,
               cacheTimeout, cacheTimeout + 1}

Get(types, configs) ==
    \E type \in types, config \in configs : GetFromCache(type, createCacheKey(config))

NextCache ==
    \/ Fetch(TtlConfigs)
    \/ Settle(TtlResponses)
    \/ Timeout
    \/ Get(CacheTypes, TtlConfigs)
    \/ Tick(CacheTimes)

SpecCache == Init /\ [][NextCache]_vars

\* The cache across unload and reload, over whatever localStorage held at
\* first: nothing, text that is not JSON, JSON of another shape, or a list
\* with a null after a well-formed entry.
StoredItems ==
    <<Item("pair", createCacheKey(Single(Num(42))), "v0", 0),
      Item("noTimestamp", createCacheKey(Single(Num(1))), "v0", 0),
      Item("null", <<>>, "", 0),
      Item("pair", createCacheKey(Single(Num(99))), "v0", 0)>>

StoredBlobs ==
    {Absent, Blob("garbage", <<>>), Blob("null", <<>>), Blob("number", <<>>),
     Blob("object", << <<"userData", [array |-> FALSE, items |-> <<>>]>>,
                       <<"thumbnails", [array |-> TRUE, items |-> StoredItems]>> >>),
     Blob("object", << <<"mediaData", [array |-> TRUE,
                                       items |-> SubSeq(StoredItems, 1, 2)]>> >>),
     Blob("object", << <<"mediaData", [array |-> TRUE, items |-> StoredItems]>> >>),
     Blob("object", << <<"constructor", [array |-> TRUE,
                                         items |-> SubSeq(StoredItems, 1, 1)]>>,
                       <<"mediaData", [array |-> TRUE,
                                       items |-> SubSeq(StoredItems, 4, 4)]>> >>)}

StorageConfigs == {Single(Num(42)), SearchConfig}
StorageResponses == {WithData("v1")}
StorageTimes == {0, delay, ttlMap.searchResults + 1, ttlMap.searchResults + 1 + delay}

NextStorage ==
    \/ phase = "loaded" /\ Fetch(StorageConfigs)
    \/ Settle(StorageResponses)
    \/ Timeout
    \/ phase = "loaded" /\ Onunload
    \/ Onload
    \/ Tick(StorageTimes)

SpecStorage ==
    InitState({TRUE}, StoredBlobs, {"constructed"}) /\ [][NextStorage]_vars

\* Invalidation among the entries of several users, media types and lists.
InvalidateConfigs ==
    {Single(Num(42)), SingleOf(Str("bob"), Num(42), Str("ANIME")),
     SingleOf(Str("alice"), Num(42), Str("MANGA")), Single(Num(99)),
     ListConfig, ListOf(Str("COMPLETED"), Str("list"))}
InvalidateResponses == {WithData("v1"), WithErrors}

NextInvalidate ==
    \/ Fetch(InvalidateConfigs)
    \/ Update({Num(42)})
    \/ Settle(InvalidateResponses)
    \/ Timeout
    \/ Invalidate({Num(42)})
    \/ Tick(Times)

SpecInvalidate == Init /\ [][NextInvalidate]_vars

\* createCacheKey over configs built in several insertion orders, called
\* while the clock, the cache and the queue change.
Reverse(config) == [i \in DOMAIN config |-> config[Len(config) + 1 - i]]

KeyBases ==
    {Single(Num(42)), Single(Str("42")), Single(Num(99)), SingleNoCache(Num(42)),
     SingleOf(Str("bob"), Num(42), Str("ANIME")), ListConfig, SearchConfig,
     MediaInListConfig(Num(42), Str("ANIME")), MediaInListConfig(Num(42), Undefined)}
KeyConfigs == KeyBases \cup {Reverse(config) : config \in KeyBases}

NextKey ==
    \/ \E config \in KeyConfigs : CreateCacheKey(config)
    \/ Fetch({ListConfig})
    \/ Settle({WithData("v1")})
    \/ Timeout
    \/ Tick({0, delay})

SpecKey == Init /\ [][NextKey]_vars

\* The scheduler when every operation settles, the clock advances and the
\* event loop runs the timers that are due.
LiveTimes == {0, delay \div 2}

NextLive ==
    \/ Fetch(QueueConfigs)
    \/ Update({Num(42)})
    \/ Settle(QueueResponses)
    \/ Timeout
    \/ Toggle
    \/ Elapse
    \/ Tick(LiveTimes)

SpecLive ==
    /\ InitWith(BOOLEAN)
    /\ [][NextLive]_vars
    /\ WF_vars(Settle(QueueResponses))
    /\ WF_vars(Timeout)
    /\ WF_vars(Elapse)

\* The cache methods called directly, also with categories the cache does
\* not have, as the entries age.
MethodTypes == CacheTypes \cup {"thumbnails", "constructor"}
MethodKeys == {createCacheKey(Single(Num(42))), createCacheKey(SearchConfig)}
MethodValues == {"v1", "v2"}
MethodTimes == {0, pruneEvery, ttlMap.searchResults + 1, ttlMap.mediaData + 1}

NextMethods ==
    \/ \E type \in MethodTypes, key \in MethodKeys, value \in MethodValues :
          SetToCache(type, key, value)
    \/ \E type \in MethodTypes, key \in MethodKeys : GetFromCache(type, key)
    \/ PruneCache
    \/ Tick(MethodTimes)

SpecMethods == Init /\ [][NextMethods]_vars

\* Entries of single items through reads, writes, sweeps, invalidation,
\* unload and reload.
EntryKeys == {createCacheKey(Single(Num(42))), createCacheKey(Single(Num(99)))}
EntryTimes == {0, pruneEvery, ttlMap.mediaData + 1}

NextEntries ==
    \/ /\ phase = "loaded"
       /\ \/ \E key \in EntryKeys, value \in MethodValues :
                SetToCache("mediaData", key, value)
          \/ \E key \in EntryKeys : GetFromCache("mediaData", key)
          \/ Invalidate({Num(42)})
          \/ Onunload
    \/ PruneCache
    \/ Onload
    \/ Tick(EntryTimes)

SpecEntries == Init /\ [][NextEntries]_vars

\* Mutations of media 42 over a cache that holds keys that are not the text
\* of an object.
MalformedKeys == {createCacheKey(Single(Num(42))), GarbageKey, NullKey, NumberKey}

NextMalformed ==
    \/ \E key \in MalformedKeys : SetToCache("mediaData", key, "v1")
    \/ Update({Num(42)})
    \/ Settle({WithData("v1")})
    \/ Timeout
    \/ Tick({0, delay})

SpecMalformed == Init /\ [][NextMalformed]_vars

\* Search results next to single items, through mutations, invalidation,
\* sweeps, logout and unload.
SearchFor(mediaId) == SearchConfig \o << <<"mediaId", mediaId>> >>
SearchConfigs == {SearchConfig, SearchFor(Str("42")), Single(Num(42))}
SearchTimes == {0, delay, ttlMap.searchResults + 1}

NextSearch ==
    \/ /\ phase = "loaded"
       /\ \/ Fetch(SearchConfigs)
          \/ Update({Num(42)})
          \/ Invalidate({Num(42)})
          \/ Logout
          \/ Onunload
    \/ Settle({WithData("v1")})
    \/ Timeout
    \/ PruneCache
    \/ Tick(SearchTimes)

SpecSearch == Init /\ [][NextSearch]_vars

\* The plugin up to and after onunload, which is let run more than once.
LifecycleTimes == {0, delay, ttlMap.searchResults + 1}

NextLifecycle ==
    \/ phase = "loaded" /\ Fetch({SearchConfig, Single(Num(42))})
    \/ Settle({WithData("v1")})
    \/ Timeout
    \/ PruneCache
    \/ Onunload
    \/ Tick(LifecycleTimes)

SpecLifecycle == Init /\ [][NextLifecycle]_vars

\* Entries saved and loaded when their age is below, at and above the TTL of
\* their category.
ExpiryConfigs == {SearchConfig, Single(Num(42))}
ExpiryTimes == {0, ttlMap.searchResults, ttlMap.searchResults + 1}

NextExpiry ==
    \/ phase = "loaded" /\ Fetch(ExpiryConfigs)
    \/ Settle({WithData("v1")})
    \/ Timeout
    \/ PruneCache
    \/ phase = "loaded" /\ Onunload
    \/ Onload
    \/ Tick(ExpiryTimes)

SpecExpiry == Init /\ [][NextExpiry]_vars

\* Fetches of configs of every type, as their entries age past 2, 10 and
\* 30 minutes.
CategoryConfigs == {StatsConfig, ListConfig, InlineListConfig, Single(Num(42)),
                    SearchConfig}
CategoryTimes == {0, 2 * 60 * 1000 + 1, 10 * 60 * 1000 + 1, 30 * 60 * 1000,
                  30 * 60 * 1000 + 1}

NextCategory ==
    \/ Fetch(CategoryConfigs)
    \/ Settle({WithData("v1")})
    \/ Timeout
    \/ Tick(CategoryTimes)

SpecCategory == Init /\ [][NextCategory]_vars

-----------------------------------------------------------------------------
(* Properties of the scheduler (SpecQueue).                                *)

\* C1: operations are started in exactly the order in which they were
\* submitted: the i-th operation to start is the one of the i-th add call,
\* whether it was submitted while idle, while a task ran or during the delay.
C1_StartsInSubmissionOrder ==
    \A i \in DOMAIN startOrder : startOrder[i] = i

\* Three operations have started, the third one having waited in the queue.
C1_Witness == Len(startOrder) >= 3

\* C2: at most one submitted operation is running at any time.
C2_SingleFlight == Cardinality(inFlight) <= 1

\* One operation runs while two tasks wait behind it.
C2_Witness == Cardinality(inFlight) = 1 /\ Len(queue) >= 2

\* C3: when an operation starts after an earlier one has settled, at least the
\* configured delay has passed since that settlement.
C3_MinimumSpacing ==
    [][(startOrder' # startOrder /\ lastSettle # Null) => now' - lastSettle >= delay]_vars

\* The second operation runs, started exactly one delay after the first settled.
C3_Witness ==
    /\ Len(startOrder) >= 2
    /\ inFlight # {}
    /\ lastSettle # Null
    /\ now - lastSettle = delay
    /\ timers = {}

\* C4: the settlement of an operation is delivered to the promise of its own
\* add call and to no other (rejected exactly when the operation rejected);
\* the tasks queued behind it stay queued, their callers stay pending, and the
\* timer that starts the next task is armed one delay ahead.
C4_RejectionIsolated ==
    [][\A task \in inFlight :
          (inFlight' = inFlight \ {task}) =>
              /\ delivered'.promise = task.requestFn
              /\ delivered'.operation = task.requestFn
              /\ (delivered'.how = "rejected") = delivered'.with.rejected
              /\ DOMAIN calls' = DOMAIN calls \ {task.requestFn}
              /\ \A id \in DOMAIN calls' : calls'[id] = calls[id]
              /\ queue' = queue
              /\ (now + delay) \in timers']_vars

\* A task has rejected while another waits behind it, the timer armed.
C4_Witness ==
    /\ delivered.how = "rejected"
    /\ Len(queue) >= 1
    /\ (lastSettle + delay) \in timers

-----------------------------------------------------------------------------
(* Properties of fetching and invalidation (Spec).                         *)

\* The steps in which an invalidator runs for mediaId (of alice, ANIME):
\* clearSingleEntryCache is called for it, or updateMediaListEntry reaches
\* clearCacheForMedia for it.
InvalidatorRuns(mediaId) ==
    \/ ClearSingleEntryCache(mediaId, Str("alice"), Str("ANIME"))
    \/ \E task \in inFlight, resp \in Responses :
          /\ Complete(task, resp)
          /\ delivered'.call.kind = "update"
          /\ delivered'.call.mediaId = mediaId
          /\ delivered'.invalidated

\* What fetchZoroData(config) would find in cache c at time t.
Probed(c, config, t) ==
    Probe(c, config, CacheTypeOf(config), createCacheKey(config), t).value

\* The entry a probe for config would find.
Cached(c, config) == MapGet(c[CacheTypeOf(config)], createCacheKey(config))
IsCached(c, config) == MapHas(c[CacheTypeOf(config)], createCacheKey(config))

\* C5: with an empty cache the fetch of { type: 'single', username: 'alice',
\* mediaId: 42, mediaType: 'ANIME' } misses and submits one operation; with its
\* entry cached and within the TTL the fetch returns the cached value and
\* submits nothing; once an invalidator has run for (42, 'alice', 'ANIME') the
\* next identical fetch misses again.
C5_EndToEnd ==
    [][LET config == Single(Num(42))
       IN  /\ (FetchZoroData(config) /\ cache = [type \in CacheTypes |-> <<>>]) =>
                 (lastReturn' = NoValue /\ submitted' = submitted + 1)
           /\ (/\ FetchZoroData(config)
               /\ IsCached(cache, config)
               /\ now - Cached(cache, config).timestamp < ttlMap.mediaData) =>
                 (lastReturn' = Cached(cache, config).value /\ submitted' = submitted)
           /\ InvalidatorRuns(Num(42)) => Probed(cache', config, now') = NoValue]_vars

\* C6: once an invalidator has run for media 42 of alice / ANIME, no entry
\* that fetchZoroData cached for that item is returned by the next get, and
\* the entry cached for item 99 is still there, untouched.
C6_InvalidationPrecise ==
    [][InvalidatorRuns(Num(42)) =>
          /\ \A config \in {Single(Num(42)), Single(Str("42"))} :
                Probed(cache', config, now') = NoValue
          /\ IsCached(cache, Single(Num(99))) =>
                /\ IsCached(cache', Single(Num(99)))
                /\ Cached(cache', Single(Num(99))) = Cached(cache, Single(Num(99)))]_vars

\* Some entry of the cache before the step is gone after it.
EntryRemoved ==
    \E type \in CacheTypes : \E i \in DOMAIN cache[type] :
        ~MapHas(cache'[type], cache[type][i].key)

\* C7: when the operation of an updateMediaListEntry settles, clearCacheForMedia
\* runs exactly if it resolved with a body that reports no errors, and otherwise
\* the cache is left as it is; submitting the mutation changes no entry, and an
\* entry is only ever removed by such a settlement, by clearSingleEntryCache or
\* by the probe of a fetch.
C7_InvalidateOnSuccessOnly ==
    [][/\ \A task \in inFlight :
             (inFlight' = inFlight \ {task} /\ calls[task.requestFn].kind = "update") =>
                LET resp == delivered'.with
                    succeeded == ~resp.rejected /\ resp.json /\ ~resp.errors
                IN  /\ delivered'.promise = task.requestFn
                    /\ delivered'.invalidated = succeeded
                    /\ cache' = IF succeeded
                                THEN clearCacheForMedia(cache, calls[task.requestFn].mediaId)
                                ELSE cache
       /\ (\E mediaId \in {Num(42)} : UpdateMediaListEntry(mediaId)) => cache' = cache
       /\ EntryRemoved =>
             \/ \E task \in inFlight :
                   /\ inFlight' = inFlight \ {task}
                   /\ calls[task.requestFn].kind = "update"
                   /\ ~delivered'.with.rejected
                   /\ delivered'.with.json
                   /\ ~delivered'.with.errors
             \/ \E mediaId \in {Num(42)} :
                   ClearSingleEntryCache(mediaId, Str("alice"), Str("ANIME"))
             \/ \E config \in Configs : FetchZoroData(config)]_vars

\* A mutation has come back with errors, and the single entry and the list
\* cached before it are still there.
C7_Witness ==
    /\ delivered.call.kind = "update"
    /\ delivered.with = WithErrors
    /\ ~delivered.invalidated
    /\ IsCached(cache, Single(Num(42)))
    /\ IsCached(cache, ListConfig)

\* C9: a fetch with nocache = true submits an operation whatever the cache
\* holds and leaves every Map as it is, both when it is made and when its
\* operation settles.
C9_NoCacheBypasses ==
    [][/\ FetchZoroData(SingleNoCache(Num(42))) =>
             (submitted' = submitted + 1 /\ cache' = cache)
       /\ \A task \in inFlight :
             (/\ inFlight' = inFlight \ {task}
              /\ calls[task.requestFn].kind = "fetch"
              /\ calls[task.requestFn].cacheKey = createCacheKey(SingleNoCache(Num(42)))) =>
                cache' = cache]_vars

-----------------------------------------------------------------------------
(* Properties of expiry (SpecTtl, SpecCache).                              *)

\* C8: a fetch that finds an entry for its key returns it, submitting nothing,
\* when the entry is younger than the TTL of its category, and misses, with the
\* entry deleted from the Map, when it is older; and an entry stays in its Map
\* for as long as it is younger than that TTL.
C8_TtlExpiry ==
    [][/\ \A config \in TtlConfigs :
             (FetchZoroData(config) /\ IsCached(cache, config)) =>
                LET entry == Cached(cache, config)
                    ttl == ttlMap[CacheTypeOf(config)]
                IN  /\ now - entry.timestamp < ttl =>
                          /\ lastReturn' = entry.value
                          /\ submitted' = submitted
                          /\ cache' = cache
                    /\ now - entry.timestamp > ttl =>
                          /\ lastReturn' = NoValue
                          /\ ~IsCached(cache', config)
       /\ \A type \in CacheTypes : \A i \in DOMAIN cache[type] :
             now' - cache[type][i].timestamp < ttlMap[type] =>
                /\ MapHas(cache'[type], cache[type][i].key)
                /\ MapGet(cache'[type], cache[type][i].key).timestamp
                      >= cache[type][i].timestamp]_vars

\* A search result was cached, has outlived its TTL, and the fetch that found
\* it expired has dropped it and waits for a fresh result, while a list cached
\* at the same time is still served.
C8_Witness ==
    /\ now > ttlMap.searchResults
    /\ ~IsCached(cache, SearchConfig)
    /\ \E id \in DOMAIN calls : calls[id].cacheKey = createCacheKey(SearchConfig)
    /\ IsCached(cache, ListConfig)
    /\ lastReturn = NoValue

\* C10: getFromCache without a TTL argument returns an entry exactly when its
\* age does not exceed the TTL of its category, and otherwise deletes it and
\* returns null.
C10_DefaultTtlIsCategoryTtl ==
    [][\A type \in CacheTypes : \A config \in TtlConfigs :
          (GetFromCache(type, createCacheKey(config))
              /\ MapHas(cache[type], createCacheKey(config))) =>
             LET entry == MapGet(cache[type], createCacheKey(config))
             IN  IF now - entry.timestamp <= ttlMap[type]
                 THEN lastReturn' = entry.value /\ cache' = cache
                 ELSE /\ lastReturn' = NoValue
                      /\ ~MapHas(cache'[type], createCacheKey(config))]_vars

-----------------------------------------------------------------------------
(* Properties of persistence (SpecStorage).                                *)

\* The step in which a plugin instance is loaded and hydrates its cache.
Hydrates == phase # "loaded" /\ phase' = "loaded"

\* C11: when a cache is saved and the saved item is loaded into the empty cache
\* of a new instance, every entry that was saved and is younger than the TTL
\* of its category is in the new cache, under the same category and key and
\* with the same value and timestamp, and no entry that is past the TTL of
\* its category is.
C11_SaveLoadKeepsFresh ==
    [][(Hydrates /\ phase = "unloaded") =>
          \A type \in CacheTypes : \A i \in DOMAIN saved[type] :
             LET e == saved[type][i]
             IN  /\ now - e.timestamp < ttlMap[type] =>
                       /\ MapHas(cache'[type], e.key)
                       /\ MapGet(cache'[type], e.key) = e
                 /\ now - e.timestamp > ttlMap[type] => ~MapHas(cache'[type], e.key)]_vars

\* A cache with an expired search result and a fresh single entry was saved,
\* and the instance loaded after it holds the single entry and nothing else.
C11_Witness ==
    /\ phase = "loaded"
    /\ IsCached(saved, SearchConfig)
    /\ now - Cached(saved, SearchConfig).timestamp > ttlMap.searchResults
    /\ IsCached(saved, Single(Num(42)))
    /\ cache = [saved EXCEPT !.searchResults = <<>>]
    /\ cache.mediaData # <<>>

\* C12: loadCacheFromStorage returns normally for every stored item, and when
\* it had to catch an error on the way the cache is empty afterwards.
C12_HydrationAllOrNothing ==
    [][Hydrates =>
          (loadCacheFromStorage(EmptyCache, storage, now).caught => cache' = EmptyCache)]_vars

-----------------------------------------------------------------------------
(* Properties of invalidation among several entries (SpecInvalidate).      *)

\* C13: once an invalidator has run for media 42 of alice / ANIME, no list of
\* alice's anime that was cached before is returned by the next fetch,
\* whatever its list type and layout.
C13_ListsInvalidated ==
    [][InvalidatorRuns(Num(42)) =>
          \A config \in {ListConfig, ListOf(Str("COMPLETED"), Str("list"))} :
             Probed(cache', config, now') = NoValue]_vars

\* The key is one of media 42 of alice / ANIME.
KeyOfTriple(key) ==
    /\ ParseInt(Prop(JsonParse(key), "mediaId")) = 42
    /\ Prop(JsonParse(key), "username") = Str("alice")
    /\ Prop(JsonParse(key), "mediaType") = Str("ANIME")

\* C14: an invalidator run for (42, alice, ANIME) leaves every mediaData entry
\* of another user, another media type or another mediaId in place, with its
\* value and timestamp.
C14_OnlyTheTripleRemoved ==
    [][InvalidatorRuns(Num(42)) =>
          \A i \in DOMAIN cache.mediaData :
             ~KeyOfTriple(cache.mediaData[i].key) =>
                /\ MapHas(cache'.mediaData, cache.mediaData[i].key)
                /\ MapGet(cache'.mediaData, cache.mediaData[i].key) = cache.mediaData[i]]_vars

-----------------------------------------------------------------------------
(* Properties of createCacheKey (SpecKey).                                 *)

\* The two configs have the same fields with the same values.
SameFields(a, b) ==
    /\ Len(a) = Len(b)
    /\ {a[i] : i \in DOMAIN a} = {b[i] : i \in DOMAIN b}

\* C15: all calls of createCacheKey for configs with the same field / value
\* pairs have returned the same key, in whatever order the fields were set
\* and whenever the calls were made.
C15_KeyIgnoresInsertionOrder ==
    \A p \in keys, q \in keys : SameFields(p[1], q[1]) => p[2] = q[2]

\* The key of the inline-link config was made in two insertion orders, one of
\* them with a list cached and the clock advanced.
C15_Witness ==
    /\ \E p \in keys, q \in keys :
          /\ p[1] = SingleNoCache(Num(42))
          /\ q[1] = Reverse(SingleNoCache(Num(42)))
    /\ cache.userData # <<>>
    /\ now > 0

-----------------------------------------------------------------------------
(* Properties of the busy indicator (SpecQueue).                           *)

\* The scheduler at rest: nothing queued, nothing running, no delay pending.
Idle == queue = <<>> /\ inFlight = {} /\ timers = {} /\ ~isProcessing

\* C17: whenever the loading-icon setting is on and a task is queued or
\* running, the indicator is shown; whenever the scheduler is idle, it is not.
C17_IndicatorFollowsWork ==
    /\ (showLoadingIcon /\ (queue # <<>> \/ inFlight # {})) => loader = "block"
    /\ Idle => loader = "none"

\* C18: no step taken while the loading-icon setting is off turns the
\* indicator on.
C18_NoIndicatorWhenDisabled ==
    [][~showLoadingIcon => ~(loader # "block" /\ loader' = "block")]_vars

\* The setting is off, a task runs with two more behind it, and the indicator
\* is not shown.
C18_Witness ==
    /\ ~showLoadingIcon
    /\ inFlight # {}
    /\ Len(queue) >= 2
    /\ loader = "none"

-----------------------------------------------------------------------------
(* Progress of the scheduler (SpecLive) and reruns (SpecQueue).            *)

Started(id) == \E i \in DOMAIN startOrder : startOrder[i] = id

\* C19: when every operation settles, every submitted task starts, the
\* promise of its add call settles, and with the settlement of its own
\* operation, and a busy scheduler comes back to idle with the indicator off.
C19_EveryTaskCompletes ==
    /\ \A id \in 1..MaxCalls : (submitted >= id) ~> Started(id)
    /\ \A id \in 1..MaxCalls : (id \in DOMAIN calls) ~> (id \notin DOMAIN calls)
    /\ [][\A id \in DOMAIN calls \ DOMAIN calls' :
             delivered'.promise = id /\ delivered'.operation = id]_vars
    /\ (~Idle) ~> (Idle /\ loader = "none")

\* Three tasks were submitted, all have run and settled, and the scheduler
\* is idle again.
C19_Witness ==
    /\ Len(startOrder) >= 3
    /\ DOMAIN calls = {}
    /\ Idle
    /\ loader = "none"

\* C20: no operation is invoked twice, and the settlement of an operation,
\* failed or not, submits nothing and puts nothing into the queue.
C20_RunsAtMostOnce ==
    [][/\ \A i \in DOMAIN startOrder', j \in DOMAIN startOrder' :
             startOrder'[i] = startOrder'[j] => i = j
       /\ \A task \in inFlight :
             (inFlight' = inFlight \ {task}) =>
                (submitted' = submitted /\ queue' = queue)]_vars

\* A fetch has failed, its delay has passed, and the scheduler is idle with
\* that one operation run once.
C20_Witness ==
    /\ delivered.outcome = "threw"
    /\ Idle
    /\ submitted = 1
    /\ startOrder = <<1>>

-----------------------------------------------------------------------------
(* A hung operation (SpecQueue).                                           *)

\* C21: across every step that leaves an operation pending, no task starts
\* and the scheduler is not idle afterwards: it is processing, with no timer
\* armed that could start the next task.
C21_HungOperationBlocks ==
    [][(\E task \in inFlight : task \in inFlight') =>
          /\ startOrder' = startOrder
          /\ ~Idle'
          /\ isProcessing'
          /\ timers' = {}]_vars

\* The first operation is still pending three delays after it started, with
\* two tasks submitted after it waiting.
C21_Witness ==
    /\ now = 3 * delay
    /\ startOrder = <<1>>
    /\ inFlight # {}
    /\ Len(queue) = 2
    /\ lastSettle = Null

-----------------------------------------------------------------------------
(* Properties of the cache methods called directly (SpecMethods).          *)

\* C22: getFromCache with a category that is not one of the three returns
\* null and setToCache with such a category stores nothing; neither throws and
\* the three Maps are left as they were.
C22_UnknownCategoryIsHarmless ==
    [][\A type \in MethodTypes \ CacheTypes, key \in MethodKeys :
          /\ GetFromCache(type, key) => lastReturn' = NoValue /\ cache' = cache
          /\ \A value \in MethodValues :
                SetToCache(type, key, value) =>
                   lastReturn' # Throws /\ cache' = cache]_vars

\* C23: setToCache on one of the three categories leaves exactly one entry for
\* the key in that category, with the new value and the current time as its
\* timestamp, whether or not the key had an entry; every other entry of every
\* category is as it was.
C23_SetOverwrites ==
    [][\A type \in CacheTypes, key \in MethodKeys, value \in MethodValues :
          SetToCache(type, key, value) =>
             /\ Cardinality({i \in DOMAIN cache'[type] : cache'[type][i].key = key}) = 1
             /\ MapGet(cache'[type], key) =
                   [key |-> key, value |-> value, timestamp |-> now]
             /\ \A other \in CacheTypes \ {type} : cache'[other] = cache[other]
             /\ MapDelete(cache'[type], key) = MapDelete(cache[type], key)]_vars

\* A key is written a second time, with another value, at a later time, in a
\* category that holds another entry.
C23_Witness ==
    /\ Len(cache.mediaData) = 2
    /\ MapHas(cache.mediaData, createCacheKey(Single(Num(42))))
    /\ MapGet(cache.mediaData, createCacheKey(Single(Num(42)))) =
          [key |-> createCacheKey(Single(Num(42))), value |-> "v2",
           timestamp |-> pruneEvery]
    /\ cache.mediaData[2].timestamp = 0
    /\ now = pruneEvery

\* C24: right after a sweep no category holds an entry older than the TTL of
\* the category, and every entry that was there before the sweep and is within
\* the TTL is still there with its value and timestamp.
C24_SweepEvictsExpiredOnly ==
    [][PruneCache =>
          \A type \in CacheTypes :
             /\ \A i \in DOMAIN cache'[type] :
                   ~(now - cache'[type][i].timestamp > ttlMap[type])
             /\ \A i \in DOMAIN cache[type] :
                   ~(now - cache[type][i].timestamp > ttlMap[type]) =>
                      /\ MapHas(cache'[type], cache[type][i].key)
                      /\ MapGet(cache'[type], cache[type][i].key) = cache[type][i]]_vars

\* After the sweep at ten minutes and a millisecond, the single item written
\* at two minutes is the only entry left.
C24_Witness ==
    /\ now = ttlMap.mediaData + 1
    /\ cache.searchResults = <<>>
    /\ cache.userData = <<>>
    /\ Len(cache.mediaData) = 1
    /\ cache.mediaData[1].timestamp = ttlMap.searchResults + 1
    /\ lastReturn = "undefined"

-----------------------------------------------------------------------------
(* Properties of unload (SpecStorage, SpecLifecycle).                      *)

\* The stored item holds, category by category and in order, the entries of c.
Holds(blob, c) ==
    /\ blob.kind = "object"
    /\ Len(blob.props) = Len(CacheOrder)
    /\ \A p \in DOMAIN blob.props :
          LET type == blob.props[p][1]
              items == blob.props[p][2].items
          IN  /\ type = CacheOrder[p]
              /\ blob.props[p][2].array
              /\ Len(items) = Len(c[type])
              /\ \A i \in DOMAIN items :
                    /\ items[i].shape = "pair"
                    /\ items[i].key = c[type][i].key
                    /\ items[i].value = c[type][i].value
                    /\ items[i].timestamp = c[type][i].timestamp

\* C25: the item onunload writes to localStorage holds exactly the entries the
\* Maps had before they were cleared, and when onunload returns the three Maps
\* are empty and the sweep is stopped.
C25_SnapshotBeforeClear ==
    [][(phase = "loaded" /\ phase' = "unloaded") =>
          /\ Holds(storage', cache)
          /\ cache' = EmptyCache
          /\ ~pruneInterval']_vars

\* The plugin is unloaded with a single item in the cache.
C25_Witness ==
    /\ phase = "unloaded"
    /\ IsCached(saved, Single(Num(42)))
    /\ Holds(storage, saved)
    /\ cache = EmptyCache
    /\ ~pruneInterval

\* The sweep removes an entry: the step of the setInterval callback.
Sweeps ==
    /\ cache' = pruneCache(cache, now)
    /\ cache' # cache
    /\ UNCHANGED <<now, storage, phase, pruneInterval, saved, inFlight, lastReturn>>

\* C26: once onunload has stopped the sweep no sweep runs any more, and
\* stopping it a second time leaves it stopped.
C26_StoppedForGood ==
    [][/\ phase = "unloaded" => ~Sweeps
       /\ (phase = "unloaded" /\ Onunload) =>
             ~pruneInterval /\ ~pruneInterval']_vars

\* After unload a search that was in flight has written its result, the
\* entry is past its TTL and a minute has gone by, and onunload has run again
\* since.
C26_Witness ==
    /\ phase = "unloaded"
    /\ ~pruneInterval
    /\ now = ttlMap.searchResults + 1
    /\ IsCached(saved, SearchConfig)
    /\ Cached(saved, SearchConfig).timestamp = 0
    /\ cache = EmptyCache

-----------------------------------------------------------------------------
(* Properties of invalidation over malformed keys (SpecMalformed).         *)

\* The mutation of mediaId has succeeded and clearCacheForMedia runs.
MutationInvalidates(mediaId) ==
    \E task \in inFlight, resp \in Responses :
       /\ Complete(task, resp)
       /\ delivered'.call.kind = "update"
       /\ delivered'.call.mediaId = mediaId
       /\ delivered'.invalidated

\* C27: clearCacheForMedia skips a key that JSON.parse rejects or that parses
\* to something that is no object, and still removes every key of the same
\* Map whose mediaId is the one invalidated.
C27_MalformedKeysSkipped ==
    [][MutationInvalidates(Num(42)) =>
          \A i \in DOMAIN cache.mediaData :
             LET e == cache.mediaData[i]
             IN  IF KeyShape(e.key) = "object"
                 THEN Prop(JsonParse(e.key), "mediaId") = Num(42) =>
                         ~MapHas(cache'.mediaData, e.key)
                 ELSE /\ MapHas(cache'.mediaData, e.key)
                      /\ MapGet(cache'.mediaData, e.key) = e]_vars

\* The mutation has succeeded over a Map that held a key that is no JSON
\* before the key of media 42: the first is still there, the second is gone.
C27_Witness ==
    /\ delivered.call.kind = "update"
    /\ delivered.invalidated
    /\ MapHas(cache.mediaData, GarbageKey)
    /\ ~MapHas(cache.mediaData, createCacheKey(Single(Num(42))))
    /\ submitted = 1
    /\ Len(cache.mediaData) = 1
    /\ lastReturn = "undefined"

-----------------------------------------------------------------------------
(* Properties of the probe (SpecQueue).                                    *)

\* config has an entry within the TTL of its category and does not set nocache.
Fresh(c, config, t) ==
    /\ Prop(config, "nocache") # True
    /\ IsCached(c, config)
    /\ ~(t - Cached(c, config).timestamp > ttlMap[CacheTypeOf(config)])

\* C28: when the probe hits, fetchZoroData returns the stored value and
\* submits nothing: the queue, the processing flag, the operation in flight,
\* the timers and the loader are as they were.
C28_HitSubmitsNothing ==
    [][\A config \in QueueConfigs :
          (FetchZoroData(config) /\ Fresh(cache, config, now)) =>
             /\ lastReturn' = Cached(cache, config).value
             /\ cache' = cache
             /\ UNCHANGED <<queue, isProcessing, inFlight, timers, loader,
                            submitted, calls, startOrder>>]_vars

\* A fetch is answered from the cache while an operation is in flight and
\* another waits in the queue.
C28_Witness ==
    /\ lastReturn = "v1"
    /\ IsCached(cache, Single(Num(42)))
    /\ inFlight # {}
    /\ Len(queue) = 1
    /\ isProcessing
    /\ submitted = 3

-----------------------------------------------------------------------------
(* Properties of the entries (SpecEntries, SpecSearch).                    *)

\* C29: no operation changes the value or the timestamp of an entry in place:
\* from one step to the next an entry is as it was or gone, unless the step is
\* a setToCache for its key or the hydration of a new instance.
C29_EntriesImmutable ==
    [][\A type \in CacheTypes : \A i \in DOMAIN cache[type] :
          LET e == cache[type][i]
          IN  (MapHas(cache'[type], e.key) /\ MapGet(cache'[type], e.key) # e) =>
                 \/ Hydrates
                 \/ \E value \in MethodValues : SetToCache(type, e.key, value)]_vars

\* An entry written at time 0 has been read a minute later and is as written,
\* after another entry was invalidated.
C29_Witness ==
    /\ now = pruneEvery
    /\ lastReturn = "v1"
    /\ cleared = Num(42)
    /\ cache.mediaData = <<[key |-> createCacheKey(Single(Num(99))),
                            value |-> "v1", timestamp |-> 0]>>

-----------------------------------------------------------------------------
(* Properties of expiry across the probe, the sweep and hydration          *)
(* (SpecExpiry).                                                           *)

\* C31: the probe of fetchZoroData, the sweep and hydration apply one expiry
\* rule with the TTL of the category: hydration keeps a saved entry exactly
\* when getFromCache with the category TTL would return it and pruneCache
\* would keep it, also when the age of the entry is the TTL.
C31_OneExpiryRule ==
    [][(Hydrates /\ phase = "unloaded") =>
          \A type \in CacheTypes : \A i \in DOMAIN saved[type] :
             LET e == saved[type][i]
             IN  /\ MapHas(cache'[type], e.key) <=>
                       getFromCache(saved, type, e.key, ttlMap[type], now).value # NoValue
                 /\ MapHas(cache'[type], e.key) <=>
                       MapHas(pruneCache(saved, now)[type], e.key)]_vars

-----------------------------------------------------------------------------
(* Properties of fetches and mutations in the scheduler (SpecQueue).       *)

\* The operation of promise a was started before that of promise b.
StartedBefore(a, b) ==
    \E i, j \in DOMAIN startOrder :
       i < j /\ startOrder[i] = a /\ startOrder[j] = b

\* C32: when the invalidation of a mutation runs, every fetch whose operation
\* ran before the operation of the mutation has already written its result:
\* no such fetch is still waiting for its promise, so none writes the cache
\* after the invalidation.
C32_WriteBeforeInvalidation ==
    [][MutationInvalidates(Num(42)) =>
          \A id \in DOMAIN calls :
             calls[id].kind = "fetch" => ~StartedBefore(id, delivered'.operation)]_vars

\* The fetch of media 42 ran first and its result is cached; the operation of
\* the mutation of media 42, submitted while the fetch ran, is now in flight.
C32_Witness ==
    /\ startOrder = <<1, 2>>
    /\ inFlight = {Task(2)}
    /\ 2 \in DOMAIN calls
    /\ calls[2].kind = "update"
    /\ 1 \notin DOMAIN calls
    /\ IsCached(cache, Single(Num(42)))
    /\ Cached(cache, Single(Num(42))).timestamp = delay \div 2
    /\ now = 2 * delay

\* C33: of two fetches of the same config without nocache, the second made
\* while the first is queued or running, only one submits an operation: no
\* two fetches of one key wait for the scheduler at the same time.
C33_OneOperationPerKey ==
    \A a, b \in DOMAIN calls :
       (/\ calls[a].kind = "fetch"
        /\ calls[b].kind = "fetch"
        /\ calls[a].cacheKey = createCacheKey(Single(Num(42)))
        /\ calls[b].cacheKey = createCacheKey(Single(Num(42)))) => a = b

\* C35: whenever a task waits in the queue the scheduler is processing, with
\* an operation running or the timer of the delay pending.
C35_QueuedTaskHasAStarter ==
    queue # <<>> => (isProcessing /\ (inFlight # {} \/ timers # {}))

\* Two tasks wait while the timer armed by the first operation is pending.
C35_Witness ==
    /\ Len(queue) = 2
    /\ inFlight = {}
    /\ timers = {delay}
    /\ isProcessing
    /\ now = delay \div 2

-----------------------------------------------------------------------------
(* Properties after unload (SpecLifecycle).                                *)

\* C34: once onunload has cleared the Maps they stay empty, also when a fetch
\* that was queued or running at the time completes, and the scheduler starts
\* no operation any more.
C34_QuietAfterUnload ==
    [][(phase = "unloaded" /\ phase' = "unloaded") =>
          /\ cache' = EmptyCache
          /\ startOrder' = startOrder]_vars

-----------------------------------------------------------------------------
(* Properties of failed fetches (Spec).                                    *)

\* The operation rejected, or its response is empty, reports errors or has
\* no data.
Failed(resp) == resp.rejected \/ ~resp.json \/ resp.errors \/ resp.data = NoData

\* C37: when the operation of a fetch rejects, or its response is empty,
\* reports errors or carries no data, fetchZoroData throws to its caller and
\* no entry of any category is written or changed.
C37_FailedFetchWritesNothing ==
    [][(/\ delivered' # delivered
        /\ delivered'.call.kind = "fetch"
        /\ Failed(delivered'.with)) =>
          /\ delivered'.outcome = "threw"
          /\ cache' = cache]_vars

\* A fetch has failed on a response that reports errors, over a cache that
\* holds an entry.
C37_Witness ==
    /\ delivered.call.kind = "fetch"
    /\ delivered.with = WithErrors
    /\ delivered.outcome = "threw"
    /\ IsCached(cache, Single(Num(42)))
    /\ delivered.call.cacheKey = createCacheKey(Single(Num(42)))

-----------------------------------------------------------------------------
(* Properties of timestamps across a restart (SpecStorage).                *)

\* C36: every entry a new instance loads after a restart is an entry that was
\* saved, with the timestamp and the value it was saved with, so that it is
\* served from the new cache only while it would have been served from the
\* old one.
C36_HydrationKeepsTimestamps ==
    [][(Hydrates /\ phase = "unloaded") =>
          \A type \in CacheTypes : \A i \in DOMAIN cache'[type] :
             LET e == cache'[type][i]
             IN  /\ MapHas(saved[type], e.key)
                 /\ MapGet(saved[type], e.key) = e
                 /\ getFromCache(saved, type, e.key, ttlMap[type], now).value = e.value]_vars

\* The plugin was reloaded a scheduler delay after the single item was cached
\* and unloaded, and the entry still has the timestamp 0.
C36_Witness ==
    /\ phase = "loaded"
    /\ now = delay
    /\ IsCached(cache, Single(Num(42)))
    /\ IsCached(saved, Single(Num(42)))
    /\ Cached(cache, Single(Num(42))) = Cached(saved, Single(Num(42)))
    /\ Cached(cache, Single(Num(42))).timestamp = 0
    /\ Cached(cache, Single(Num(42))).value = "v1"

-----------------------------------------------------------------------------
(* Properties of the categories (SpecCategory).                            *)

\* The category and the TTL in minutes the claim gives each config, and the
\* key of the config.
Filed ==
    {<<config, "userData", 30, createCacheKey(config)>> :
        config \in {StatsConfig, ListConfig, InlineListConfig}}
    \cup {<<Single(Num(42)), "mediaData", 10, createCacheKey(Single(Num(42)))>>,
          <<SearchConfig, "searchResults", 2, createCacheKey(SearchConfig)>>}

\* The step is a call of fetchZoroData or of updateMediaListEntry.
IsCall == now' = now /\ delivered' = delivered /\ timers' = timers

\* C38: fetchZoroData files a config of type 'stats', of another type or of
\* no type under userData, one of type 'single' under mediaData and one of
\* type 'search' under searchResults: on a miss the result is stored in that
\* category and in no other, and the probe returns an entry of that category
\* exactly while its age is at most 30, 10 and 2 minutes.
C38_CategoryAndTtl ==
    [][\A f \in Filed :
          LET config == f[1]
              type == f[2]
              ttl == f[3] * 60 * 1000
              key == f[4]
          IN  /\ (delivered' # delivered /\ delivered'.call.cacheKey = key
                    /\ delivered'.outcome = "returned") =>
                    /\ MapHas(cache'[type], key)
                    /\ MapGet(cache'[type], key).timestamp = now
                    /\ \A other \in CacheTypes \ {type} : cache'[other] = cache[other]
              /\ (IsCall /\ MapHas(cache[type], key) /\ FetchZoroData(config)) =>
                    IF now - MapGet(cache[type], key).timestamp > ttl
                    THEN lastReturn' = NoValue /\ ~MapHas(cache'[type], key)
                    ELSE lastReturn' = MapGet(cache[type], key).value /\ cache' = cache
              /\ (IsCall /\ ~MapHas(cache[type], key) /\ FetchZoroData(config)) =>
                    /\ submitted' = submitted + 1
                    /\ calls'[submitted'].cacheType = type]_vars

\* A list without a type is cached under userData and was just served at the
\* age of 30 minutes, while the search fetched with it has to be fetched again.
C38_Witness ==
    /\ now = 30 * 60 * 1000
    /\ MapHas(cache.userData, createCacheKey(ListConfig))
    /\ MapGet(cache.userData, createCacheKey(ListConfig)).timestamp = 0
    /\ lastReturn = "v1"
    /\ cache.mediaData = <<>>
    /\ cache.searchResults = <<>>
    /\ \E id \in DOMAIN calls : calls[id].cacheType = "searchResults"

-----------------------------------------------------------------------------
(* Properties of hydration over foreign categories (SpecStorage).          *)

====
